---------------------------- MODULE Spec2Model ----------------------------
(***************************************************************************)
(* A model of the two syntax-tree emitters of this repository:             *)
(*   src/codegen.py       the mirror emitter   (tree -> python text)       *)
(*   src/codegen_objc.py  the heuristic emitter (tree -> objective-c text) *)
(*                                                                         *)
(* Text is a sequence of tokens.  A token is either one character (names   *)
(* are sequences of one-character tokens, so that split, capitalisation    *)
(* and delimiter counting are computed character by character) or one of   *)
(* the literal fragments the handlers write ("@implementation ", ") {").   *)
(* The depth-first walk is a state machine: the tree is chosen node by     *)
(* node while it is walked (a pre-order walk sees the tree in exactly that *)
(* order), `stack` holds the handlers that are suspended in a loop over    *)
(* child statements, and every action is one handler's code up to its next *)
(* child statement.                                                        *)
(***************************************************************************)
EXTENDS Integers, Sequences, FiniteSets, TLC

VARIABLES
    backend,               \* "mirror" (codegen.py) or "objc" (codegen_objc.py)
    add_line_information,  \* SourceGenerator.add_line_information
    result,                \* SourceGenerator.result, flattened to tokens
    isNew,                 \* SourceGenerator._new
    indentation,           \* SourceGenerator.indentation
    new_lines,             \* SourceGenerator.new_lines
    inClassDef,            \* SourceGenerator.inClassDef            (objc)
    inMethodDef,           \* SourceGenerator.inMethodDef           (objc)
    hasCCA,                \* FALSE once `del self.currentClassAttributes` ran
    currentClassAttributes,      \* set of names                    (objc)
    currentClassAttributeTypes,  \* name -> type                    (objc)
    classAttributes,       \* class name -> set of names            (objc)
    stdout,                \* what the run printed, line by line
    returned,              \* the text to_source returned (<<>> before that)
    round2,                \* the text of the second emission of a round trip
    pc,                    \* "walk", "done" (to_source returned), "abort",
                           \* "printed" (the driver printed the text)
    stack,                 \* the suspended handlers, innermost last
    nodes,                 \* statements visited so far
    emitted,               \* history: tokens handed to write() by the last step
    wlog,                  \* history: <<depth, open, open classes>> per write
                           \*          of the last step
    lastNode,              \* history: the node the last step visited
    skipped,               \* history: nodes visited that no handler knows
    assignLog,             \* history: the recordings of attributes, in walk
                           \*          order: [cls, attr, value]
    reqs,                  \* history: newline requests since the last write
    stores,                \* the assignments the handlers made to fields of
                           \* nodes of the tree: [node, field, old, new]
    lastFlush              \* history: what the last write flushed

vars == <<backend, add_line_information, result, isNew, indentation, new_lines,
          inClassDef, inMethodDef, hasCCA, currentClassAttributes,
          currentClassAttributeTypes, classAttributes, stdout, returned,
          round2, pc,
          stack, nodes, emitted, wlog, lastNode, skipped, assignLog, reqs,
          stores, lastFlush>>

(***************************************************************************)
(* Bounds of the model.                                                    *)
(***************************************************************************)
MaxStmts == 3      \* statements of a walked tree
MaxDepth == 2      \* nesting of compound statements
MaxRegStmts == 3   \* statements of a tree walked for its attribute registry
MaxSyms == 4       \* words and delimiters a generated name is made of
MaxArgs == 2       \* positional arguments of a generated call
MaxParams == 2     \* parameters of a generated method
MaxExtra == 1      \* `extra` of a newline request made on the buffer
MaxOps == 5        \* operations made on the buffer

(***************************************************************************)
(* Strings.                                                                *)
(***************************************************************************)
Delim == "_"

\* ''.join(parts)
RECURSIVE Join(_)
Join(parts) ==
    IF parts = <<>> THEN <<>> ELSE Head(parts) \o Join(Tail(parts))

\* n copies of the token t: t * n (nothing when n <= 0)
Rep(t, n) == [i \in 1..n |-> t]

\* str.split('_'): every part, the empty ones included
RECURSIVE split(_)
split(s) ==
    IF \A i \in 1..Len(s) : s[i] # Delim
    THEN <<s>>
    ELSE LET i == CHOOSE k \in 1..Len(s) :
                      s[k] = Delim /\ \A j \in 1..(k - 1) : s[j] # Delim
         IN  <<SubSeq(s, 1, i - 1)>> \o split(SubSeq(s, i + 1, Len(s)))

\* str.capitalize() of one character
UpperChar(c) ==
    CASE c = "a" -> "A" [] c = "b" -> "B" [] c = "f" -> "F" [] c = "g" -> "G"
      [] c = "i" -> "I" [] c = "p" -> "P" [] c = "q" -> "Q" [] c = "s" -> "S"
      [] c = "v" -> "V" [] c = "x" -> "X" [] c = "z" -> "Z"
      [] OTHER -> c

capitalize_first(s) ==
    IF Len(s) > 1 THEN <<UpperChar(s[1])>> \o Tail(s)
    ELSE IF Len(s) > 0 THEN <<UpperChar(s[1])>>
    ELSE s

\* [s for s in items if len(s) != 0]
RECURSIVE NonEmpty(_)
NonEmpty(items) ==
    IF items = <<>> THEN <<>>
    ELSE IF Head(items) = <<>> THEN NonEmpty(Tail(items))
    ELSE <<Head(items)>> \o NonEmpty(Tail(items))

\* the names the models' trees use
n_self == <<"s", "e", "l", "f">>
n_init == <<"_", "_", "i", "n", "i", "t", "_", "_">>
n_repr == <<"_", "_", "r", "e", "p", "r", "_", "_">>
w_init == <<"i", "n", "i", "t">>
w_description == <<"d", "e", "s", "c", "r", "i", "p", "t", "i", "o", "n">>
w_get == <<"g", "e", "t">>
w_value == <<"v", "a", "l", "u", "e">>
w_foo == <<"f", "o", "o">>
w_bar == <<"b", "a", "r">>
w_apple == <<"a", "p", "p", "l", "e">>
w_zebra == <<"z", "e", "b", "r", "a">>


(***************************************************************************)
(* The generator.  A handler is a function from the generator's state to   *)
(* its state after the handler; Self is the state as a record and Commit   *)
(* stores a record back.  failed models a raised exception: nothing that   *)
(* follows the raise in the handler happens.                               *)
(***************************************************************************)
IndentWith == "    "
LineInfo == <<"# line: N">>

Max(a, b) == IF a >= b THEN a ELSE b

Self ==
    [backend |-> backend, ali |-> add_line_information,
     result |-> result, isNew |-> isNew, indentation |-> indentation,
     new_lines |-> new_lines, inClassDef |-> inClassDef,
     inMethodDef |-> inMethodDef, hasCCA |-> hasCCA,
     cca |-> currentClassAttributes, ccat |-> currentClassAttributeTypes,
     classAttributes |-> classAttributes, stdout |-> stdout,
     failed |-> FALSE,
     cls |-> IF \E i \in 1..Len(stack) : stack[i].k = "class"
             THEN stack[CHOOSE i \in 1..Len(stack) :
                            /\ stack[i].k = "class"
                            /\ \A j \in (i + 1)..Len(stack) : stack[j].k # "class"].name
             ELSE <<>>,
     open |-> Len(stack),
     openCls |-> Cardinality({i \in 1..Len(stack) : stack[i].k = "class"}),
     emitted |-> <<>>, wlog |-> {}, assignLog |-> assignLog, reqs |-> reqs,
     stores |-> stores, lastFlush |-> lastFlush]

Commit(g) ==
    /\ result' = g.result
    /\ isNew' = g.isNew
    /\ indentation' = g.indentation
    /\ new_lines' = g.new_lines
    /\ inClassDef' = g.inClassDef
    /\ inMethodDef' = g.inMethodDef
    /\ hasCCA' = g.hasCCA
    /\ currentClassAttributes' = g.cca
    /\ currentClassAttributeTypes' = g.ccat
    /\ classAttributes' = g.classAttributes
    /\ stdout' = g.stdout
    /\ emitted' = g.emitted
    /\ wlog' = g.wlog
    /\ assignLog' = g.assignLog
    /\ reqs' = g.reqs
    /\ stores' = g.stores
    /\ lastFlush' = g.lastFlush
    /\ UNCHANGED <<backend, add_line_information, round2>>

\* SourceGenerator(indent_with, add_line_information): a generator of its
\* own, as a record
SourceGenerator(b, ali) ==
    [backend |-> b, ali |-> ali, result |-> <<>>, isNew |-> TRUE,
     indentation |-> 0, new_lines |-> 0, inClassDef |-> FALSE,
     inMethodDef |-> FALSE, hasCCA |-> TRUE, cca |-> {},
     ccat |-> [x \in {} |-> <<>>], classAttributes |-> [x \in {} |-> <<>>],
     stdout |-> <<>>, failed |-> FALSE, cls |-> <<>>, open |-> 0, openCls |-> 0,
     emitted |-> <<>>, wlog |-> {}, assignLog |-> <<>>, reqs |-> <<>>,
     stores |-> <<>>,
     lastFlush |-> [breaks |-> 0, requested |-> <<>>, nonEmpty |-> FALSE]]

\* the line breaks among the tokens t
Breaks(t) == Cardinality({i \in 1..Len(t) : t[i] = "\n"})

\* an exception leaves the handler
raise(g) == [g EXCEPT !.failed = TRUE]

\* a handler that keeps what it computed about a node to itself
store_nothing(g, node, field, old, new) == g

\* node.field = new, where the field held old ("absent": the node had no
\* such field)
store(g, node, field, old, new) ==
    IF g.failed THEN g
    ELSE [g EXCEPT !.stores = Append(@, [node |-> node, field |-> field,
                                         old |-> old, new |-> new])]

\* SourceGenerator.write, the same code in both emitters
write(g, x) ==
    IF g.failed THEN g
    ELSE LET pre == IF g.new_lines # 0
                    THEN (IF ~g.isNew THEN Rep("\n", g.new_lines) ELSE <<>>)
                         \o Rep(IndentWith, g.indentation)
                    ELSE <<>>
         IN  [g EXCEPT !.result = @ \o pre \o x,
                       !.new_lines = 0,
                       !.isNew = FALSE,
                       !.emitted = @ \o x,
                       !.wlog = @ \cup {<<g.indentation, g.open, g.openCls>>},
                       !.reqs = <<>>,
                       !.lastFlush = [breaks |-> Breaks(pre),
                                      requested |-> g.reqs,
                                      nonEmpty |-> ~g.isNew]]

\* requests that add up
CoalesceSum(pending, extra) == pending + 1 + extra

\* new_lines = max(new_lines, 1 + extra)
Coalesce(pending, extra) == Max(pending, 1 + extra)

\* SourceGenerator.newline.  node is "none" (no node given), "parsed" (a node
\* of the tree, which has a lineno) or "fresh" (a node the emitter built
\* itself, Pass(), which has none: node.lineno raises AttributeError)
newline(g, node, extra) ==
    IF g.failed THEN g
    ELSE LET g1 == [g EXCEPT !.new_lines = Coalesce(@, extra),
                             !.reqs = Append(@, 1 + extra)]
         IN  IF node # "none" /\ g.ali
             THEN IF node = "fresh" THEN raise(g1)
                  ELSE [write(g1, LineInfo) EXCEPT !.new_lines = 1,
                                                   !.reqs = <<1>>]
             ELSE g1


(***************************************************************************)
(* Expressions.  An expression is a record [k, id, recv, args]:            *)
(*   Name       id                      Int, Float   id = repr(n)          *)
(*   Str        id = s                  List, Dict   (empty literals)      *)
(*   Attribute  recv.id                 Call         id(args), recv.id(args)*)
(* The receiver of an Attribute or of a method-style Call is a Name.       *)
(***************************************************************************)
Name(id) == [k |-> "Name", id |-> id, recv |-> <<>>, args |-> <<>>]
NumInt(r) == [k |-> "Int", id |-> r, recv |-> <<>>, args |-> <<>>]
NumFloat(r) == [k |-> "Float", id |-> r, recv |-> <<>>, args |-> <<>>]
Str(s) == [k |-> "Str", id |-> s, recv |-> <<>>, args |-> <<>>]
List == [k |-> "List", id |-> <<>>, recv |-> <<>>, args |-> <<>>]
Dict == [k |-> "Dict", id |-> <<>>, recv |-> <<>>, args |-> <<>>]
Attribute(recv, attr) == [k |-> "Attribute", id |-> attr, recv |-> recv, args |-> <<>>]
Call(recv, id, args) == [k |-> "Call", id |-> id, recv |-> recv, args |-> args]

\* zip(a, b): the pairs up to the shorter of the two
Zip(a, b) ==
    [i \in 1..(IF Len(a) <= Len(b) THEN Len(a) ELSE Len(b)) |-> <<a[i], b[i]>>]

\* visit_Name, visit_Num, visit_Str, visit_List, visit_Dict of either emitter
visit_Atom(g, e) ==
    CASE e.k = "Name" -> write(g, e.id)
      [] e.k \in {"Int", "Float"} -> write(g, e.id)
      [] e.k = "Str" -> IF g.backend = "objc"
                        THEN write(g, <<"@\"">> \o e.id \o <<"\"">>)
                        ELSE write(g, <<"'">> \o e.id \o <<"'">>)
      [] e.k = "List" -> write(write(g, <<"[">>), <<"]">>)
      [] e.k = "Dict" -> write(write(g, <<"{">>), <<"}">>)

\* visit_Attribute: the receiver, the recording of an attribute of `self`
\* (objc), then the attribute.  No parsed Attribute node carries is_method
\* when it is visited, so the separator is '.'
visit_Attribute(g, e) ==
    LET g1 == write(g, e.recv)
    IN  IF g.backend = "mirror" THEN write(g1, <<".">> \o e.id)
        ELSE LET g2 == IF g1.failed \/ e.recv # n_self THEN g1
                       ELSE IF ~g1.hasCCA THEN raise(g1)
                       ELSE [g1 EXCEPT !.cca = @ \cup {e.id},
                                       !.assignLog = Append(@, [cls |-> g.cls, attr |-> e.id,
                                                                value |-> e])]
             IN  write(write(g2, <<".">>), e.id)

\* an argument: an atom or an attribute access
visit_Arg(g, e) ==
    IF e.k = "Attribute" THEN visit_Attribute(g, e) ELSE visit_Atom(g, e)

\* the write_comma()/visit(arg) loop of visit_Call, from argument i on
RECURSIVE visit_Args(_, _, _)
visit_Args(g, args, i) ==
    IF i > Len(args) THEN g
    ELSE visit_Args(visit_Arg(IF i > 1 THEN write(g, <<", ">>) ELSE g, args[i]),
                    args, i + 1)

\* the `for name, arg in zip(arg_names, node.args)` loop of visit_Call_class
RECURSIVE visit_Pairs(_, _, _)
visit_Pairs(g, pairs, i) ==
    IF i > Len(pairs) THEN g
    ELSE visit_Pairs(visit_Arg(write(g, <<" ">> \o pairs[i][1] \o <<":">>),
                               pairs[i][2]),
                     pairs, i + 1)

\* visit_Call_class: [receiver part:arg ...]
visit_Call_class(g, e) ==
    LET method_name == e.id
        g1 == visit_Atom(write(g, <<"[">>), Name(e.recv))
        arg_names == split(method_name)
        g2 == IF Len(e.args) # 0
              THEN visit_Pairs(g1, Zip(arg_names, e.args), 1)
              ELSE write(g1, <<" ">> \o method_name)
    IN  write(g2, <<"]">>)

\* visit_Call.  is_method = hasattr(node.func, 'value'): func is an Attribute
visit_Call(g, e) ==
    LET is_method == e.recv # <<>>
        g0 == IF g.backend = "objc"
              THEN store(g, e, "is_method", "absent",
                         IF is_method THEN "True" ELSE "False")
              ELSE g
    IN  IF g.backend = "objc" /\ is_method
        THEN visit_Call_class(g0, e)
        ELSE LET g1 == IF e.recv # <<>>
                       THEN visit_Attribute(g0, Attribute(e.recv, e.id))
                       ELSE visit_Atom(g0, Name(e.id))
             IN  write(visit_Args(write(g1, <<"(">>), e.args, 1), <<")">>)

\* NodeVisitor.visit of an expression
visit_Expression(g, e) ==
    CASE e.k = "Call" -> visit_Call(g, e)
      [] e.k = "Attribute" -> visit_Attribute(g, e)
      [] OTHER -> visit_Atom(g, e)


(***************************************************************************)
(* Simple statements.                                                      *)
(***************************************************************************)
\* the attributes hasattr() finds on a value node.  The Mixed kinds are
\* hand-built nodes that carry the attributes of two node classes.
Fields(v) ==
    CASE v.k = "Call" -> {"func"}
      [] v.k = "List" -> {"elts"}
      [] v.k \in {"Int", "Float"} -> {"n"}
      [] v.k = "Str" -> {"s"}
      [] v.k = "Name" -> {"id"}
      [] v.k = "MixedFuncElts" -> {"func", "elts"}
      [] v.k = "MixedEltsN" -> {"elts", "n"}
      [] v.k = "MixedNS" -> {"n", "s"}
      [] v.k = "MixedSId" -> {"s", "id"}
      [] OTHER -> {}

n_True == <<"T", "r", "u", "e">>
n_False == <<"F", "a", "l", "s", "e">>
NoType == <<>>

\* id_string(node.value.func): the id of a Name, str(node) of any other node
id_string_func(v) ==
    IF v.recv = <<>> THEN v.id ELSE <<"<_ast.Attribute object>">>

\* a chain that asks for `s` before `n` and for `elts` before `func`
InferTypeReordered(v) ==
    IF "elts" \in Fields(v) THEN <<"NSArray *">>
    ELSE IF "func" \in Fields(v) THEN id_string_func(v) \o <<" id">>
    ELSE IF "s" \in Fields(v) THEN <<"NSString *">>
    ELSE IF "n" \in Fields(v) THEN (IF v.k = "Float" THEN <<"float">> ELSE <<"int">>)
    ELSE IF "id" \in Fields(v) /\ v.id \in {n_True, n_False} THEN <<"BOOL">>
    ELSE NoType

\* the if/elif chain of visit_Assign: the type of a class-level attribute,
\* NoType when no rule matches
InferType(v) ==
    IF "func" \in Fields(v) THEN id_string_func(v) \o <<" id">>
    ELSE IF "elts" \in Fields(v) THEN <<"NSArray *">>
    ELSE IF "n" \in Fields(v) THEN (IF v.k = "Float" THEN <<"float">> ELSE <<"int">>)
    ELSE IF "s" \in Fields(v) THEN <<"NSString *">>
    ELSE IF "id" \in Fields(v) /\ v.id \in {n_True, n_False} THEN <<"BOOL">>
    ELSE NoType

\* a registry that keeps the first type of a name
SetTypeOnce(types, a, t) ==
    [x \in DOMAIN types \cup {a} |-> IF x \in DOMAIN types THEN types[x] ELSE t]

\* currentClassAttributeTypes[target_id] = t
SetType(types, a, t) ==
    [x \in DOMAIN types \cup {a} |-> IF x = a THEN t ELSE types[x]]

\* the class-level branch of visit_Assign (objc), one Name target
RecordAttribute(g, target, value) ==
    LET t == InferType(value)
        g1 == [g EXCEPT !.cca = @ \cup {target},
                        !.assignLog = Append(@, [cls |-> g.cls, attr |-> target,
                                                 value |-> value])]
    IN  IF ~g.hasCCA THEN raise(g)
        ELSE IF t # NoType THEN [g1 EXCEPT !.ccat = SetType(@, target, t)]
        ELSE [g1 EXCEPT !.stdout = @ \o <<<<"unknown member type:">>, <<"dir(node.value)">>>>]

\* visit_Assign, one Name target
visit_Assign(g, target, value) ==
    IF g.backend = "objc" /\ g.inClassDef /\ ~g.inMethodDef
    THEN RecordAttribute(g, target, value)
    ELSE visit_Expression(write(visit_Atom(newline(g, "parsed", 0), Name(target)),
                                <<" = ">>),
                          value)

\* visit_Expr: newline(node), then generic_visit reaches the value
visit_Expr(g, e) == visit_Expression(newline(g, "parsed", 0), e)

\* a visit_Pass that writes the placeholder in both emitters
visit_Pass_writes(g, node) == write(newline(g, node, 0), <<"pass">>)

\* a visit_Pass that writes nothing in either emitter
visit_Pass_silent(g, node) == newline(g, node, 0)

\* visit_Pass; node is "parsed" for a pass statement of the tree and "fresh"
\* for the Pass() that body() builds
visit_Pass(g, node) ==
    IF g.backend = "mirror" THEN write(newline(g, node, 0), <<"pass">>)
    ELSE newline(g, node, 0)

\* a dispatcher that raises for a node it cannot handle
generic_visit_raises(g) == raise(g)

\* NodeVisitor.visit of a node whose class has no visit_<Class> method:
\* generic_visit, which visits the node's children.  Here the node has none.
generic_visit_leaf(g) == g


(***************************************************************************)
(* Declarations: the selector of a method (objc).                          *)
(***************************************************************************)
\* a rename map without the constructor
function_rename_repr_only(name) == IF name = n_repr THEN w_description ELSE name

\* function_rename_map
function_rename(name) ==
    IF name = n_init THEN w_init
    ELSE IF name = n_repr THEN w_description
    ELSE name

\* the 0-based indices of the non-empty items
FilledAt(items) == {i - 1 : i \in {j \in 1..Len(items) : items[j] # <<>>}}

\* the loop `for i in range(len(signature_items))`: the last assignment wins
prefix_count(items) ==
    IF FilledAt(items) = {} THEN 0
    ELSE CHOOSE i \in FilledAt(items) : \A j \in FilledAt(items) : j <= i

\* the loop `for i in xrange(len(signature_items)-1, -1, -1)`
suffix_count(items) ==
    IF FilledAt(items) = {} THEN 0
    ELSE CHOOSE i \in FilledAt(items) : \A j \in FilledAt(items) : j >= i

\* the signature_items of a (renamed) method name, as visit_FunctionDef
\* leaves them before it looks at the parameters
signature_items(node_name) ==
    LET raw == split(node_name)
        pc0 == prefix_count(raw)
        sc0 == suffix_count(raw)
        filled == NonEmpty(raw)
        dropped == IF Len(filled) > 1 /\ filled[1] = w_get THEN Tail(filled) ELSE filled
        capped == IF Len(filled) > 1 /\ Len(dropped) > 1
                  THEN <<dropped[1]>> \o [i \in 1..(Len(dropped) - 1) |->
                                              capitalize_first(dropped[i + 1])]
                  ELSE dropped
        pre == IF pc0 > 0 THEN [capped EXCEPT ![1] = Rep(Delim, pc0) \o @] ELSE capped
    IN  IF sc0 > 0 THEN [pre EXCEPT ![1] = @ \o Rep(Delim, sc0)] ELSE pre

\* the `for arg in args_without_self` loop, from argument i on
RECURSIVE write_params(_, _, _)
write_params(g, aws, i) ==
    IF i > Len(aws) THEN g
    ELSE LET arg_name == aws[i]
             arg_sig == IF i = 1 THEN capitalize_first(arg_name) ELSE arg_name
         IN  write_params(write(write(write(write(g, arg_sig), <<":(id)">>),
                                      arg_name), <<" ">>),
                          aws, i + 1)

\* what visit_FunctionDef writes for a method of a class, '- (id)' to '{'
method_header(g, name, params) ==
    LET g1 == write(g, <<"- (id)">>)
        node_name == function_rename(name)
        items == signature_items(node_name)
        args_without_self == IF params[1] = n_self THEN Tail(params) ELSE params
        joined == Join(items)
        g2 == IF Len(args_without_self) > 0
              THEN IF Len(params) > 1
                   THEN write_params(IF joined = w_init
                                     THEN write(write(g1, joined), <<"With">>)
                                     ELSE write(g1, joined),
                                     args_without_self, 1)
                   ELSE g1
              ELSE write(write(g1, node_name), <<" ">>)
        emitted_name == IF Len(args_without_self) > 0 /\ Len(params) > 1
                        THEN joined ELSE node_name
    IN  IF params = <<>> THEN raise(g1)     \* node.args.args[0]: IndexError
        ELSE store(write(g2, <<"{">>), [name |-> name, params |-> params],
                   "name", name, emitted_name)   \* node.name = node_name

\* signature(node.args): positional parameters without defaults
RECURSIVE signature(_, _, _)
signature(g, params, i) ==
    IF i > Len(params) THEN g
    ELSE IF g.backend = "objc" /\ g.inClassDef /\ params[i] = n_self
    THEN signature(g, params, i + 1)
    ELSE LET g1 == IF \E j \in 1..(i - 1) :
                         ~(g.backend = "objc" /\ g.inClassDef /\ params[j] = n_self)
                   THEN write(g, <<", ">>) ELSE g
             g2 == IF g.backend = "objc" THEN write(g1, <<"id ">>) ELSE g1
         IN  signature(write(g2, params[i]), params, i + 1)

\* a body() that forgets to indent
body_open_flat(g) == IF g.failed THEN g ELSE [g EXCEPT !.open = @ + 1]

\* body(), up to its loop over the statements
body_open(g) == IF g.failed THEN g ELSE [g EXCEPT !.indentation = @ + 1, !.open = @ + 1]

\* body(), after its loop: the placeholder of an empty body, the dedent and
\* (objc) the closing brace.  n is the number of statements of the body.
body_close(g, n) ==
    LET g1 == IF n = 0 THEN visit_Pass(g, "fresh") ELSE g
        g2 == IF g1.failed THEN g1
              ELSE [g1 EXCEPT !.indentation = @ - 1, !.open = @ - 1]
    IN  IF g.backend = "objc" THEN write(newline(g2, "none", 0), <<"}">>) ELSE g2

\* visit_FunctionDef up to the loop of body() (no decorators)
FunctionDef_open(g, name, params) ==
    IF g.backend = "objc"
    THEN LET g1 == newline(newline([g EXCEPT !.inMethodDef = TRUE], "none", 1),
                           "parsed", 0)
         IN  body_open(IF g.inClassDef
                       THEN method_header(g1, name, params)
                       ELSE write(signature(write(g1, <<"id ">> \o name \o <<"(">>),
                                            params, 1),
                                  <<") {">>))
    ELSE body_open(write(signature(write(newline(newline(g, "none", 1), "parsed", 0),
                                         <<"def ">> \o name \o <<"(">>),
                                   params, 1),
                         <<"):">>))

\* visit_FunctionDef from the end of the loop of body() on
FunctionDef_close(g, n) ==
    LET g1 == body_close(g, n)
    IN  IF g.backend = "objc" /\ ~g1.failed
        THEN [g1 EXCEPT !.inMethodDef = FALSE] ELSE g1

\* visit_ClassDef up to the loop over the statements (no decorators, no bases)
ClassDef_open(g, name) ==
    IF g.backend = "objc"
    THEN write(newline(newline([g EXCEPT !.inClassDef = TRUE, !.cca = {},
                                         !.hasCCA = TRUE, !.cls = name],
                               "none", 2), "parsed", 0),
               <<"@implementation ">> \o name)
    ELSE body_open(write(write(newline(newline(g, "none", 2), "parsed", 0),
                               <<"class ">> \o name),
                         <<":">>))

\* classAttributes[className] = currentClassAttributes
SetClass(reg, name, attrs) ==
    [c \in DOMAIN reg \cup {name} |-> IF c = name THEN attrs ELSE reg[c]]

\* visit_ClassDef from the end of the loop on
ClassDef_close(g, name, n) ==
    IF g.backend = "objc"
    THEN LET g1 == write(newline(g, "none", 0), <<"\n", "@end">>)
         IN  IF g1.failed THEN g1
             ELSE IF ~g1.hasCCA
             THEN raise([g1 EXCEPT !.inClassDef = FALSE])
             ELSE [g1 EXCEPT !.inClassDef = FALSE,
                             !.classAttributes = SetClass(@, name, g1.cca),
                             !.cca = {},
                             !.hasCCA = FALSE]
    ELSE body_close(g, n)


(***************************************************************************)
(* Control flow.                                                           *)
(***************************************************************************)
\* visit_If up to the loop of the first body()
If_open(g, test) ==
    IF g.backend = "objc"
    THEN body_open(write(visit_Expression(write(newline(g, "parsed", 0), <<"if (">>),
                                          test),
                         <<") {">>))
    ELSE body_open(write(visit_Expression(write(newline(g, "parsed", 0), <<"if ">>),
                                          test),
                         <<":">>))

\* a visit_If that takes an else arm of exactly one if statement for any
\* other else arm: a literal else
If_elif_literal(g, n, test) ==
    body_open(write(newline(body_close(g, n), "none", 0),
                    IF g.backend = "objc" THEN <<"else {">> ELSE <<"else:">>))

\* visit_If, `len(else_) == 1 and isinstance(else_[0], If)`: the end of the
\* body before, then the introducer of the nested if
If_elif(g, n, test) ==
    LET g1 == newline(body_close(g, n), "none", 0)
    IN  IF g.backend = "objc"
        THEN body_open(write(visit_Expression(write(g1, <<"else if (">>), test),
                             <<") {">>))
        ELSE body_open(write(visit_Expression(write(g1, <<"elif ">>), test),
                             <<":">>))

\* visit_If, the else branch of the loop with a non-empty else_, up to the
\* loop of body(else_)
If_else(g, n) ==
    LET g1 == newline(body_close(g, n), "none", 0)
    IN  body_open(write(g1, IF g.backend = "objc" THEN <<"else {">> ELSE <<"else:">>))

\* visit_If, the else branch of the loop with an empty else_
If_end(g, n) ==
    LET g1 == body_close(g, n)
    IN  IF g.backend = "objc"
        THEN body_close(body_open(write(newline(g1, "none", 0), <<"else {">>)), 0)
        ELSE g1

\* visit_While up to the loop of body()
While_open(g, test) ==
    body_open(write(visit_Expression(write(newline(g, "parsed", 0), <<"while ">>),
                                     test),
                    <<":">>))

\* body_or_else with a non-empty orelse, up to the loop of body(node.orelse)
While_else(g, n) ==
    LET g1 == newline(body_close(g, n), "none", 0)
    IN  body_open(write(g1, IF g.backend = "objc" THEN <<"else {">> ELSE <<"else:">>))

(***************************************************************************)
(* The walk.  A frame of `stack` is a handler suspended in a loop over     *)
(* child statements: k is the loop ("class", "func", "if", "else",         *)
(* "while", "welse"), n the children visited so far, name the class name,  *)
(* firstIf whether the first child is an if statement.                     *)
(***************************************************************************)
Frame(k, name) == [k |-> k, n |-> 0, name |-> name, firstIf |-> FALSE]

Top == stack[Len(stack)]

\* the stack once the innermost loop has taken one more child
Counted(isIf) ==
    IF stack = <<>> THEN stack
    ELSE [stack EXCEPT ![Len(stack)] =
              [@ EXCEPT !.n = @ + 1, !.firstIf = IF Top.n = 0 THEN isIf ELSE @]]

\* a visited node; the step that ends a body puts the number of statements
\* of that body in args
Node(op, name, recv, args) == [op |-> op, name |-> name, recv |-> recv, args |-> args]

\* one step of the walk: the generator after the handler, the stack, the node
Step(g, newStack, count, node) ==
    /\ Commit(g)
    /\ pc' = IF g.failed THEN "abort" ELSE "walk"
    /\ stack' = IF g.failed THEN stack ELSE newStack
    /\ nodes' = nodes + count
    /\ lastNode' = node
    /\ skipped' = IF node.op = "Unhandled" THEN skipped + 1 ELSE skipped
    /\ UNCHANGED returned

Assign(target, value) ==
    /\ pc = "walk"
    /\ Step(visit_Assign(Self, target, value), Counted(FALSE), 1,
            Node("Assign", target, <<>>, <<value>>))

ExprStmt(e) ==
    /\ pc = "walk"
    /\ Step(visit_Expr(Self, e), Counted(FALSE), 1,
            Node("Expr", e.id, e.recv, e.args))

PassStmt ==
    /\ pc = "walk"
    /\ Step(visit_Pass(Self, "parsed"), Counted(FALSE), 1,
            Node("Pass", <<>>, <<>>, <<>>))

UnhandledLeaf ==
    /\ pc = "walk"
    /\ Step(generic_visit_leaf(Self), Counted(FALSE), 1,
            Node("Unhandled", <<>>, <<>>, <<>>))

EnterFunctionDef(name, params) ==
    /\ pc = "walk"
    /\ Step(FunctionDef_open(Self, name, params),
            Append(Counted(FALSE), Frame("func", <<>>)), 1,
            Node("FunctionDef", name, <<>>, params))

EnterClassDef(name) ==
    /\ pc = "walk"
    /\ Step(ClassDef_open(Self, name),
            Append(Counted(FALSE), Frame("class", name)), 1,
            Node("ClassDef", name, <<>>, <<>>))

EnterIf(test) ==
    /\ pc = "walk"
    /\ Step(If_open(Self, test), Append(Counted(TRUE), Frame("if", <<>>)), 1,
            Node("If", <<>>, <<>>, <<test>>))

EnterWhile(test) ==
    /\ pc = "walk"
    /\ Step(While_open(Self, test), Append(Counted(FALSE), Frame("while", <<>>)), 1,
            Node("While", <<>>, <<>>, <<test>>))

Pop == SubSeq(stack, 1, Len(stack) - 1)

LeaveFunctionDef ==
    /\ pc = "walk" /\ stack # <<>> /\ Top.k = "func"
    /\ Step(FunctionDef_close(Self, Top.n), Pop, 0,
            Node("EndFunctionDef", <<>>, <<>>, <<Top.n>>))

LeaveClassDef ==
    /\ pc = "walk" /\ stack # <<>> /\ Top.k = "class"
    /\ Step(ClassDef_close(Self, Top.name, Top.n), Pop, 0,
            Node("EndClassDef", Top.name, <<>>, <<Top.n>>))

\* the else arm is exactly one nested if: the chain goes on
ElseIf(test) ==
    /\ pc = "walk" /\ stack # <<>> /\ Top.k = "if"
    /\ Step(If_elif(Self, Top.n, test), Append(Pop, Frame("if", <<>>)), 1,
            Node("ElseIf", test.id, <<>>, <<Top.n>>))

\* the else arm is not empty and is not exactly one nested if
Else ==
    /\ pc = "walk" /\ stack # <<>> /\ Top.k = "if"
    /\ Step(If_else(Self, Top.n), Append(Pop, Frame("else", <<>>)), 0,
            Node("Else", <<>>, <<>>, <<Top.n>>))

\* the else arm is empty
EndIf ==
    /\ pc = "walk" /\ stack # <<>> /\ Top.k = "if"
    /\ Step(If_end(Self, Top.n), Pop, 0, Node("EndIf", <<>>, <<>>, <<Top.n>>))

\* the end of a literal else arm, of a loop without else, of a loop's else
LeaveBody ==
    /\ pc = "walk" /\ stack # <<>>
    /\ \/ Top.k = "else" /\ Top.n >= 1 /\ ~(Top.n = 1 /\ Top.firstIf)
       \/ Top.k = "while"
       \/ Top.k = "welse" /\ Top.n >= 1
    /\ Step(body_close(Self, Top.n), Pop, 0, Node("EndBody", <<>>, <<>>, <<Top.n>>))

WhileElse ==
    /\ pc = "walk" /\ stack # <<>> /\ Top.k = "while"
    /\ Step(While_else(Self, Top.n), Append(Pop, Frame("welse", <<>>)), 0,
            Node("WhileElse", <<>>, <<>>, <<Top.n>>))


(***************************************************************************)
(* to_source after the walk: the text post-pass and the interface blocks   *)
(* (objc), the join of the fragments (mirror).                             *)
(***************************************************************************)
n_comment == <<"_", "_", "c", "o", "m", "m", "e", "n", "t", "_", "_">>
CommentMark == n_comment \o <<" = ", "@\"">>

\* ''.join(result).split('\n')
RECURSIVE SplitLines(_)
SplitLines(t) ==
    IF \A i \in 1..Len(t) : t[i] # "\n"
    THEN <<t>>
    ELSE LET i == CHOOSE k \in 1..Len(t) :
                      t[k] = "\n" /\ \A j \in 1..(k - 1) : t[j] # "\n"
         IN  <<SubSeq(t, 1, i - 1)>> \o SplitLines(SubSeq(t, i + 1, Len(t)))

\* '\n'.join(lines)
RECURSIVE JoinLines(_)
JoinLines(lines) ==
    IF Len(lines) = 0 THEN <<>>
    ELSE IF Len(lines) = 1 THEN lines[1]
    ELSE lines[1] \o <<"\n">> \o JoinLines(Tail(lines))

\* the tokens that are white space only
IsBlank(tok) == tok \in {" ", IndentWith}

\* line.strip(): the line without the blank tokens at its two ends
Strip(line) ==
    LET ink == {i \in 1..Len(line) : ~IsBlank(line[i])}
    IN  IF ink = {} THEN <<>>
        ELSE SubSeq(line, CHOOSE i \in ink : \A j \in ink : i <= j,
                          CHOOSE i \in ink : \A j \in ink : i >= j)

\* the tokens whose first character is '@'
StartsWithAt(tok) == tok \in {"@", "@\"", "@implementation ", "@end"}

\* the tokens whose last character is a brace
EndsWithBrace(tok) == tok \in {"{", "}", ") {", "else {"}

\* `pattern in line` at position i
OccursAt(line, pattern, i) ==
    /\ i + Len(pattern) - 1 <= Len(line)
    /\ SubSeq(line, i, i + Len(pattern) - 1) = pattern

Contains(line, pattern) == \E i \in 1..Len(line) : OccursAt(line, pattern, i)

\* line.replace(pattern, by)
RECURSIVE Replace(_, _, _)
Replace(line, pattern, by) ==
    IF line = <<>> THEN <<>>
    ELSE IF OccursAt(line, pattern, 1)
    THEN by \o Replace(SubSeq(line, Len(pattern) + 1, Len(line)), pattern, by)
    ELSE <<Head(line)>> \o Replace(Tail(line), pattern, by)

\* the body of the loop `for i in xrange(len(lines))` of to_source.  A line
\* that holds the mark ends in the one-character token '"' (line[:-1])
PostLine(line) ==
    LET st == Strip(line)
        semi == IF st # <<>> /\ ~StartsWithAt(st[1]) /\ ~EndsWithBrace(st[Len(st)])
                THEN line \o <<";">> ELSE line
    IN  IF Contains(line, CommentMark)
        THEN Replace(SubSeq(line, 1, Len(line) - 1), CommentMark, <<"//">>)
        ELSE semi

PostPass(text) ==
    LET lines == SplitLines(text)
    IN  JoinLines([i \in 1..Len(lines) |-> PostLine(lines[i])])

\* the order of the characters of names (their code points)
Ord(c) ==
    CASE c \in {"A", "B", "C"} -> 1
      [] c = "_" -> 2
      [] c = "a" -> 3 [] c = "b" -> 4 [] c = "c" -> 5 [] c = "e" -> 6
      [] c = "f" -> 7 [] c = "g" -> 8 [] c = "i" -> 9 [] c = "l" -> 10
      [] c = "m" -> 11 [] c = "n" -> 12 [] c = "o" -> 13 [] c = "p" -> 14
      [] c = "q" -> 15 [] c = "r" -> 16 [] c = "s" -> 17 [] c = "t" -> 18
      [] c = "u" -> 19 [] c = "v" -> 20 [] c = "x" -> 21 [] c = "z" -> 22
      [] OTHER -> 23

\* a < b for strings
RECURSIVE Less(_, _)
Less(a, b) ==
    IF b = <<>> THEN FALSE
    ELSE IF a = <<>> THEN TRUE
    ELSE IF Ord(Head(a)) # Ord(Head(b)) THEN Ord(Head(a)) < Ord(Head(b))
    ELSE Less(Tail(a), Tail(b))

\* the names in falling order
RECURSIVE sortedDown(_)
sortedDown(set) ==
    IF set = {} THEN <<>>
    ELSE LET m == CHOOSE x \in set : \A y \in set \ {x} : Less(y, x)
         IN  <<m>> \o sortedDown(set \ {m})

\* sorted(attribs)
RECURSIVE sorted(_)
sorted(set) ==
    IF set = {} THEN <<>>
    ELSE LET m == CHOOSE x \in set : \A y \in set \ {x} : Less(x, y)
         IN  <<m>> \o sorted(set \ {m})

\* the lines one pass of `for key, attribs in classAttributes.items()` prints
InterfaceBlock(g, key) ==
    LET names == sorted(g.classAttributes[key])
        t(v) == IF v \in DOMAIN g.ccat THEN g.ccat[v] ELSE <<"id">>
    IN  <<<<"@interface ">> \o key \o <<" {">>>>
        \o [i \in 1..Len(names) |->
               <<IndentWith>> \o t(names[i]) \o <<" ">> \o names[i] \o <<";">>]
        \o <<<<"}">>, <<"\n", "@end", "\n", "\n">>>>

\* the interface blocks, the classes taken in the order `keys`
RECURSIVE InterfaceBlocks(_, _)
InterfaceBlocks(g, keys) ==
    IF keys = <<>> THEN <<>>
    ELSE InterfaceBlock(g, Head(keys)) \o InterfaceBlocks(g, Tail(keys))

\* the orders in which a dict of these keys may be iterated
Orders(keys) ==
    {o \in [1..Cardinality(keys) -> keys] : \A i, j \in DOMAIN o : i # j => o[i] # o[j]}

\* to_source once generator.visit(node) has returned: the walk is over
Finish ==
    /\ pc = "walk" /\ stack = <<>>
    /\ pc' = "done"
    /\ IF backend = "objc"
       THEN /\ returned' = PostPass(result)
            /\ \E keys \in Orders(DOMAIN classAttributes) :
                   stdout' = stdout \o InterfaceBlocks(Self, keys)
       ELSE /\ returned' = result
            /\ UNCHANGED stdout
    /\ lastNode' = Node("Module", <<>>, <<>>, <<>>)
    /\ emitted' = <<>>
    /\ wlog' = {}
    /\ UNCHANGED <<backend, add_line_information, result, isNew, indentation,
                   new_lines, inClassDef, inMethodDef, hasCCA,
                   currentClassAttributes, currentClassAttributeTypes,
                   classAttributes, round2, stack, nodes, skipped, assignLog,
                   reqs, stores, lastFlush>>


\* a driver that prints the returned text ahead of what was printed before
main_print_first(out, text) == SplitLines(text) \o out

\* `print text`: the lines of the text follow what the run printed before
main_print(out, text) == out \o SplitLines(text)

\* the __main__ driver of the heuristic emitter once to_source has returned:
\* print to_source(node)
Main ==
    /\ pc = "done" /\ backend = "objc"
    /\ pc' = "printed"
    /\ stdout' = main_print(stdout, returned)
    /\ UNCHANGED <<backend, add_line_information, result, isNew, indentation,
                   new_lines, inClassDef, inMethodDef, hasCCA,
                   currentClassAttributes, currentClassAttributeTypes,
                   classAttributes, returned, round2, stack, nodes, emitted,
                   wlog, lastNode, skipped, assignLog, reqs, stores, lastFlush>>

(***************************************************************************)
(* Spec: the walk of a tree by either emitter.                             *)
(***************************************************************************)
EmptyMap == [x \in {} |-> <<>>]

InitGenerator ==
    /\ result = <<>>
    /\ isNew = TRUE
    /\ indentation = 0
    /\ new_lines = 0
    /\ inClassDef = FALSE
    /\ currentClassAttributes = {}
    /\ hasCCA = TRUE
    /\ currentClassAttributeTypes = EmptyMap
    /\ classAttributes = EmptyMap
    /\ inMethodDef = FALSE

InitRun ==
    /\ InitGenerator
    /\ stdout = <<>>
    /\ returned = <<>>
    /\ round2 = <<>>
    /\ pc = "walk"
    /\ stack = <<>>
    /\ nodes = 0
    /\ emitted = <<>>
    /\ wlog = {}
    /\ lastNode = Node("None", <<>>, <<>>, <<>>)
    /\ skipped = 0
    /\ assignLog = <<>>
    /\ reqs = <<>>
    /\ stores = <<>>
    /\ lastFlush = [breaks |-> 0, requested |-> <<>>, nonEmpty |-> FALSE]

Init ==
    /\ backend \in {"mirror", "objc"}
    /\ add_line_information \in BOOLEAN
    /\ InitRun

n_x == <<"x">>
n_f == <<"f">>
n_A == <<"A">>
n_B == <<"B">>

More == nodes < MaxStmts
Deeper == Len(stack) < MaxDepth

WalkCalls == {Call(n_self, w_foo \o <<Delim>>, <<Name(n_x)>>),
              Call(<<>>, n_f, <<Attribute(n_self, n_x)>>)}

Next ==
    \/ More /\ Assign(n_x, NumInt(<<"1">>))
    \/ More /\ \E e \in WalkCalls : ExprStmt(e)
    \/ More /\ PassStmt
    \/ More /\ UnhandledLeaf
    \/ More /\ Deeper /\ EnterFunctionDef(n_f, <<n_self>>)
    \/ More /\ Deeper /\ EnterClassDef(n_A)
    \/ More /\ Deeper /\ EnterIf(Name(n_x))
    \/ More /\ Deeper /\ EnterWhile(Name(n_x))
    \/ More /\ ElseIf(Name(n_x))
    \/ Else
    \/ EndIf
    \/ WhileElse
    \/ LeaveBody
    \/ LeaveFunctionDef
    \/ LeaveClassDef
    \/ Finish
    \/ Main

Spec == Init /\ [][Next]_vars


(***************************************************************************)
(* Properties of the walk (Spec).                                          *)
(***************************************************************************)
\* the number of tokens of t equal to tok
Count(tok, t) == Cardinality({i \in 1..Len(t) : t[i] = tok})

\* the generator's own state
generator == <<result, isNew, indentation, new_lines, inClassDef, inMethodDef,
               hasCCA, currentClassAttributes, currentClassAttributeTypes,
               classAttributes, stdout>>

EndedBody ==
    lastNode.op \in {"EndFunctionDef", "EndIf", "EndBody", "ElseIf", "Else", "WhileElse"}
    \/ (lastNode.op = "EndClassDef" /\ backend = "mirror")

EndedEmptyBody ==
    \/ EndedBody /\ lastNode.args = <<0>>
    \/ lastNode.op = "EndIf" /\ backend = "objc"

C6_DepthIsOpenCount ==
    /\ indentation >= 0
    /\ \A w \in wlog : w[1] = w[2]

\* C6, amended: the same, except that the heuristic emitter does not count
\* classes: it writes the statements of a class at the depth of the class
C6_Depth ==
    /\ indentation >= 0
    /\ \A w \in wlog : w[1] >= 0
    /\ \A w \in wlog : w[1] = (IF backend = "objc" THEN w[2] - w[3] ELSE w[2])

C6_Witness ==
    /\ backend = "objc"
    /\ \E w \in wlog : w[1] = 1 /\ w[2] = 2 /\ w[3] = 1


(***************************************************************************)
(* SpecBuf: the text buffer of either emitter, driven through write() and  *)
(* newline() alone.                                                        *)
(***************************************************************************)
BufStep(g, node) ==
    /\ Commit(g)
    /\ pc' = IF g.failed THEN "abort" ELSE "walk"
    /\ nodes' = nodes + 1
    /\ lastNode' = node
    /\ UNCHANGED <<stack, skipped, returned>>

BufNewline(node, extra) ==
    /\ pc = "walk" /\ nodes < MaxOps
    /\ BufStep(newline(Self, node, extra), Node("newline", <<>>, <<>>, <<extra>>))

BufWrite(x) ==
    /\ pc = "walk" /\ nodes < MaxOps
    /\ BufStep(write(Self, x), Node("write", <<>>, <<>>, <<>>))

NextBuf ==
    \/ \E node \in {"none", "parsed"}, extra \in 0..MaxExtra : BufNewline(node, extra)
    \/ BufWrite(n_x)

SpecBuf == Init /\ [][NextBuf]_vars

\* the largest of the requests r, 0 when there is none
Largest(r) ==
    IF r = <<>> THEN 0
    ELSE CHOOSE m \in {r[i] : i \in 1..Len(r)} : \A i \in 1..Len(r) : r[i] <= m

\* C7: with diagnostic mode off, the pending count is the largest 1+extra
\* requested since the last write (0 when nothing was requested), never the
\* sum; a write onto output that is not empty emits exactly that many line
\* breaks, and the count is 0 after it
C7_Coalescing ==
    ~add_line_information =>
        /\ new_lines = Largest(reqs)
        /\ lastFlush.nonEmpty => lastFlush.breaks = Largest(lastFlush.requested)
        /\ lastNode.op = "write" => new_lines = 0

\* requests of 1, 2 and 1, then a write onto output: two line breaks
C7_Witness ==
    /\ ~add_line_information
    /\ lastNode.op = "write"
    /\ lastFlush.nonEmpty
    /\ lastFlush.requested = <<1, 2, 1>>
    /\ lastFlush.breaks = 2


(***************************************************************************)
(* SpecSel: the heuristic emitter on one method-style call, or on one      *)
(* class with one method, the names drawn from generated sets.             *)
(***************************************************************************)
\* the names made of 1..MaxSyms of the given words and delimiters
Names(syms) ==
    {Join(q) : q \in UNION {[1..n -> syms] : n \in 1..MaxSyms}}

CallNames == Names({<<Delim>>, w_foo, w_bar})
DeclNames == Names({<<Delim>>, w_get, w_value, w_init}) \cup {n_init, n_repr}

n_y == <<"y">>
n_p == <<"p">>
n_q == <<"q">>

\* the argument lists: the first 0..MaxArgs of x, y, 1, x, y, 1, ...
ArgAt(i) == CASE i % 3 = 1 -> Name(n_x) [] i % 3 = 2 -> Name(n_y) [] OTHER -> NumInt(<<"1">>)
ArgLists == {[i \in 1..n |-> ArgAt(i)] : n \in 0..MaxArgs}

\* the parameter lists: up to MaxParams of self, p, q
ParamLists == UNION {[1..n -> {n_self, n_p, n_q}] : n \in 0..MaxParams}

InitSel ==
    /\ backend = "objc"
    /\ add_line_information \in BOOLEAN
    /\ InitRun

NextSel ==
    \/ /\ nodes = 0
       /\ \E recv \in {n_self, <<>>}, name \in CallNames, args \in ArgLists :
              ExprStmt(Call(recv, name, args))
    \/ nodes = 0 /\ EnterClassDef(n_A)
    \/ /\ nodes = 1 /\ stack # <<>> /\ Top.k = "class"
       /\ \E name \in DeclNames, params \in ParamLists : EnterFunctionDef(name, params)
    \/ LeaveFunctionDef
    \/ LeaveClassDef
    \/ Finish

SpecSel == InitSel /\ [][NextSel]_vars

\* what the last step wrote, without the line-number comment of diagnostic mode
StmtText == IF add_line_information /\ emitted # <<>> THEN Tail(emitted) ELSE emitted

\* the text of an argument of ArgLists
ArgText(a) == a.id

\* [receiver p1:a1 ... pn:an], from pair i on
RECURSIVE Keywords(_, _, _)
Keywords(parts, args, i) ==
    IF i > Len(parts) THEN <<>>
    ELSE <<" ">> \o parts[i] \o <<":">> \o ArgText(args[i]) \o Keywords(parts, args, i + 1)

\* the delimiters at the end of a name
RECURSIVE Trailing(_)
Trailing(name) ==
    IF name # <<>> /\ name[Len(name)] = Delim
    THEN 1 + Trailing(SubSeq(name, 1, Len(name) - 1)) ELSE 0

\* the last step emitted a method-style call of n >= 1 non-empty name parts
\* and n arguments
MethodCallOfNParts ==
    /\ lastNode.op = "Expr" /\ lastNode.recv # <<>> /\ pc = "walk"
    /\ Len(lastNode.args) >= 1
    /\ Len(NonEmpty(split(lastNode.name))) = Len(lastNode.args)

\* C1: such a call is emitted as [receiver p1:a1 ... pn:an], the non-empty
\* parts paired with the arguments in order, and the delimiters dropped from
\* the end of the name are in the output again
C1_PairsAndTrailingDelimiter ==
    MethodCallOfNParts =>
        /\ SelectSeq(StmtText, LAMBDA t : t # Delim)
             = <<"[">> \o lastNode.recv
               \o Keywords(NonEmpty(split(lastNode.name)), lastNode.args, 1)
               \o <<"]">>
        /\ Count(Delim, StmtText) = Trailing(lastNode.name)

\* the last step emitted the header of a method of a class
MethodDeclared ==
    /\ lastNode.op = "FunctionDef" /\ backend = "objc"
    /\ Len(stack) >= 2 /\ stack[Len(stack) - 1].k = "class"

\* C2: a method declared as get_value(self) is emitted with the selector
\* `value`
C2_GetDropped ==
    (MethodDeclared /\ lastNode.name = w_get \o <<Delim>> \o w_value
                    /\ lastNode.args = <<n_self>>)
        => StmtText = <<"- (id)">> \o w_value \o <<" ", "{">>

\* the last step emitted the header of a constructor whose receiver is self
ConstructorDeclared ==
    /\ MethodDeclared /\ lastNode.name = n_init
    /\ lastNode.args # <<>> /\ lastNode.args[1] = n_self

Mixed(k, id) == [k |-> k, id |-> id, recv |-> <<>>, args |-> <<>>]

RegValues ==
    {Call(<<>>, n_f, <<>>), List, NumInt(<<"1">>), NumFloat(<<"1", ".", "5">>),
     Str(n_x), Name(n_True), Name(n_x), Dict,
     Mixed("MixedFuncElts", n_f), Mixed("MixedEltsN", <<>>),
     Mixed("MixedNS", <<>>), Mixed("MixedSId", n_True)}

RegAttrs == {w_apple, w_zebra}

InitReg ==
    /\ backend = "objc"
    /\ add_line_information \in BOOLEAN
    /\ InitRun

MoreReg == nodes < MaxRegStmts
InClass == stack # <<>> /\ Top.k = "class"
InMethod == stack # <<>> /\ Top.k = "func"

NextReg ==
    \/ /\ MoreReg /\ stack = <<>>
       /\ \E name \in {n_A, n_B} \ DOMAIN classAttributes : EnterClassDef(name)
    \/ /\ MoreReg /\ InClass
       /\ \E a \in RegAttrs, v \in RegValues : Assign(a, v)
    \/ MoreReg /\ InClass /\ EnterFunctionDef(n_f, <<n_self>>)
    \/ /\ MoreReg /\ InMethod
       /\ \E a \in RegAttrs : ExprStmt(Attribute(n_self, a))
    \/ MoreReg /\ InMethod /\ Assign(n_x, NumInt(<<"1">>))
    \/ LeaveFunctionDef
    \/ LeaveClassDef
    \/ Finish

SpecReg == InitReg /\ [][NextReg]_vars

\* the inference table of the claims, by the kind of value: the type, or
\* NoType for a value no rule matches.  A hand-built value that carries the
\* attributes of two kinds goes by the first of the two rules.
TableType(v) ==
    CASE v.k \in {"Call", "MixedFuncElts"} -> v.id \o <<" id">>
      [] v.k \in {"List", "MixedEltsN"} -> <<"NSArray *">>
      [] v.k \in {"Int", "MixedNS"} -> <<"int">>
      [] v.k = "Float" -> <<"float">>
      [] v.k \in {"Str", "MixedSId"} -> <<"NSString *">>
      [] v.k = "Name" /\ v.id \in {n_True, n_False} -> <<"BOOL">>
      [] OTHER -> NoType

\* the class-level assignments to the name a so far, as indices of assignLog
AssignedAt(a) ==
    {i \in 1..Len(assignLog) : assignLog[i].attr = a /\ assignLog[i].value.k # "Attribute"}

\* those whose value matches a rule of the table
ClassifiedAt(a) == {i \in AssignedAt(a) : TableType(assignLog[i].value) # NoType}

First(S) == CHOOSE i \in S : \A j \in S : i <= j
Last(S) == CHOOSE i \in S : \A j \in S : i >= j

\* the type the registry holds for a, NoType when it holds none
Registered(a) ==
    IF a \in DOMAIN currentClassAttributeTypes
    THEN currentClassAttributeTypes[a] ELSE NoType

\* the line of an interface block for the name a with the type t
AttrLine(t, a) ==
    <<IndentWith>> \o (IF t = NoType THEN <<"id">> ELSE t) \o <<" ">> \o a \o <<";">>

Printed(line) == \E i \in 1..Len(stdout) : stdout[i] = line

\* the names a class was given during the walk
RecordedFor(c) == {assignLog[i].attr : i \in {j \in 1..Len(assignLog) : assignLog[j].cls = c}}

\* C8 as stated: for a name assigned at class level more than once, the
\* registry holds the type inferred at the first assignment, and the
\* interface block shows it
C8_FirstInferenceWins ==
    \A a \in RegAttrs :
        Cardinality(AssignedAt(a)) >= 2 =>
            /\ Registered(a) = TableType(assignLog[First(AssignedAt(a))].value)
            /\ pc = "done" => Printed(AttrLine(Registered(a), a))

\* C8, amended: the registry holds, and the interface block shows, the type
\* inferred at the latest class-level assignment to the name whose value
\* matched a rule, in whatever class of the run; a later assignment that
\* matches a rule replaces the type, one that matches none leaves it
C8_LastInferenceWins ==
    \A a \in RegAttrs :
        /\ Registered(a) = IF ClassifiedAt(a) = {} THEN NoType
                           ELSE TableType(assignLog[Last(ClassifiedAt(a))].value)
        /\ (pc = "done" /\ \E c \in DOMAIN classAttributes : a \in classAttributes[c])
              => Printed(AttrLine(Registered(a), a))

\* a name was assigned a number and then a string: the interface shows the
\* string type
C8_Witness ==
    /\ pc = "done"
    /\ \E i, j \in AssignedAt(w_apple) :
          /\ i < j
          /\ assignLog[i].value.k = "Int"
          /\ assignLog[j].value.k = "Str"
          /\ j = Last(AssignedAt(w_apple))
    /\ Printed(AttrLine(<<"NSString *">>, w_apple))

\* the last step was a class-level assignment
ClassLevelAssigned ==
    /\ lastNode.op = "Assign" /\ pc = "walk"
    /\ assignLog # <<>>
    /\ assignLog[Len(assignLog)].attr = lastNode.name
    /\ assignLog[Len(assignLog)].value = lastNode.args[1]
    /\ emitted = <<>>

\* the run went on after the last step
NotFatal == pc = "walk"

BlockOf(c) ==
    LET h == CHOOSE i \in 1..Len(stdout) : stdout[i] = <<"@interface ">> \o c \o <<" {">>
        e == CHOOSE j \in (h + 1)..Len(stdout) :
                 stdout[j] = <<"}">> /\ \A k \in (h + 1)..(j - 1) : stdout[k] # <<"}">>
    IN  SubSeq(stdout, h + 1, e - 1)

\* the name a line of an interface block declares: what stands between the
\* last blank and the semicolon
DeclaredName(line) ==
    LET b == CHOOSE i \in 1..Len(line) :
                 line[i] = " " /\ \A j \in (i + 1)..Len(line) : line[j] # " "
    IN  SubSeq(line, b + 1, Len(line) - 1)

\* C10: the interface block of a class lists every name recorded for the
\* class exactly once, in rising order of the names, whatever the order of
\* the recordings
C10_SortedOnce ==
    pc = "done" =>
        \A c \in DOMAIN classAttributes :
            LET block == BlockOf(c)
                names == [i \in 1..Len(block) |-> DeclaredName(block[i])]
            IN  /\ Cardinality({i \in 1..Len(stdout) :
                                   stdout[i] = <<"@interface ">> \o c \o <<" {">>}) = 1
                /\ {names[i] : i \in 1..Len(names)} = RecordedFor(c)
                /\ \A i \in 1..(Len(names) - 1) : Less(names[i], names[i + 1])

\* zebra was recorded before apple and apple is listed before zebra
C10_Witness ==
    /\ pc = "done"
    /\ n_A \in DOMAIN classAttributes
    /\ \E i, j \in 1..Len(assignLog) :
          /\ i < j
          /\ assignLog[i].cls = n_A /\ assignLog[i].attr = w_zebra
          /\ assignLog[j].cls = n_A /\ assignLog[j].attr = w_apple
          /\ \A k \in 1..(j - 1) : assignLog[k].attr # w_apple
    /\ [i \in 1..2 |-> DeclaredName(BlockOf(n_A)[i])] = <<w_apple, w_zebra>>


(***************************************************************************)
(* The output of a run of the driver (Spec).                               *)
(***************************************************************************)
\* the lines of the standard output that open the implementation of class c
ImplementationLines(c) ==
    {i \in 1..Len(stdout) : Strip(stdout[i]) = <<"@implementation ">> \o c}

\* the lines of the standard output that open the interface block of class c
InterfaceLines(c) ==
    {i \in 1..Len(stdout) : stdout[i] = <<"@interface ">> \o c \o <<" {">>}

\* no interface block has been printed
NoInterfaceYet ==
    \A i \in 1..Len(stdout) : stdout[i] = <<>> \/ stdout[i][1] # "@interface "

\* C11 as stated: the interface blocks are produced after the walk, and in
\* the output every class's implementation comes before its interface block
C11_ImplementationThenInterface ==
    /\ pc \in {"walk", "abort"} => NoInterfaceYet
    /\ pc = "printed" =>
          \A c \in DOMAIN classAttributes :
              \A i \in ImplementationLines(c), j \in InterfaceLines(c) : i < j

\* C11, amended: the interface blocks are produced after the walk, one per
\* class name, but to_source prints them before it returns the text the
\* driver prints: in the output every interface block comes before every
\* implementation
C11_InterfaceThenImplementation ==
    /\ pc \in {"walk", "abort"} => NoInterfaceYet
    /\ pc \in {"done", "printed"} =>
          \A c \in DOMAIN classAttributes : Cardinality(InterfaceLines(c)) = 1
    /\ pc = "printed" =>
          \A c \in DOMAIN classAttributes :
              /\ ImplementationLines(c) # {}
              /\ \A d \in DOMAIN classAttributes :
                     \A i \in ImplementationLines(c), j \in InterfaceLines(d) : j < i

\* the driver printed the interface of A first and its implementation later
C11_Witness ==
    /\ pc = "printed" /\ n_A \in DOMAIN classAttributes
    /\ stdout[1] = <<"@interface ", "A", " {">>
    /\ \E i \in ImplementationLines(n_A) : i > 1


(***************************************************************************)
(* The tree after a run of the heuristic emitter (SpecSel).                *)
(***************************************************************************)
\* the last assignment made to a field of a node
LastStore == stores[Len(stores)]

\* C12 as stated: a run leaves the tree as it was: no field of a node is
\* added or given another value, the classification of a call included
C12_TreeUnchanged ==
    \A i \in 1..Len(stores) : stores[i].old = stores[i].new

\* C12, amended: the run changes the tree in two ways and no other.  The
\* visit of a call adds the field is_method to the call's func node (true
\* exactly for a method-style call); the visit of a method of a class whose
\* header was written assigns the name it computed to the field name of the
\* definition, and for a receiver-first method that is the name it emitted.
C12_ClassificationAndNameStored ==
    /\ \A i \in 1..Len(stores) : stores[i].field \in {"is_method", "name"}
    /\ (lastNode.op = "Expr" /\ pc = "walk") =>
          /\ stores # <<>> /\ LastStore.field = "is_method"
          /\ LastStore.old = "absent"
          /\ LastStore.node.id = lastNode.name
          /\ LastStore.new = "True" <=> lastNode.recv # <<>>
    /\ (MethodDeclared /\ pc = "walk") =>
          /\ stores # <<>> /\ LastStore.field = "name"
          /\ LastStore.old = lastNode.name
          /\ lastNode.args[1] = n_self =>
                SubSeq(StmtText, 2, 1 + Len(LastStore.new)) = LastStore.new

\* a run has returned and left the constructor of the tree named `init`
C12_Witness ==
    /\ pc = "done" /\ stores # <<>>
    /\ LastStore.field = "name" /\ LastStore.old = n_init /\ LastStore.new = w_init


(***************************************************************************)
(* The round trip of the mirror emitter: ast.parse of the emitted text.    *)
(* The parser is Python's; it is modelled on the statements and the        *)
(* expressions the trees of this model are made of.  It yields the tree as *)
(* the sequence of events of its pre-order walk.                           *)
(***************************************************************************)
Punct == {".", "(", ")", ", ", " = ", ":", "):", "def ", "class ", "if ",
          "elif ", "else:", "while ", "pass", "'", "\n", " ", IndentWith,
          "[", "]", "{", "}"}
Digits == {"0", "1", "2", "3", "4", "5", "6", "7", "8", "9"}

\* the index of the first token of t that is in S, Len(t) + 1 when none is
FirstIn(t, S) ==
    IF \E i \in 1..Len(t) : t[i] \in S
    THEN CHOOSE i \in 1..Len(t) : t[i] \in S /\ \A j \in 1..(i - 1) : t[j] \notin S
    ELSE Len(t) + 1

\* t.split(sep)
RECURSIVE SplitOn(_, _)
SplitOn(t, sep) ==
    LET i == FirstIn(t, {sep})
    IN  IF i > Len(t) THEN <<t>>
        ELSE <<SubSeq(t, 1, i - 1)>> \o SplitOn(SubSeq(t, i + 1, Len(t)), sep)

NoExpr == [k |-> "None", id |-> <<>>, recv |-> <<>>, args |-> <<>>]
BadExpr == [k |-> "SyntaxError", id |-> <<>>, recv |-> <<>>, args |-> <<>>]

IsName(t) == t # <<>> /\ t[1] \notin Digits /\ \A i \in 1..Len(t) : t[i] \notin Punct
IsNumber(t) == t # <<>> /\ \A i \in 1..Len(t) : t[i] \in Digits

\* NAME | NUMBER | 'STRING' | [] | {} | NAME.NAME
ParseOperand(t) ==
    LET d == FirstIn(t, {"."})
    IN  IF IsNumber(t) THEN NumInt(t)
        ELSE IF IsName(t) THEN Name(t)
        ELSE IF Len(t) >= 2 /\ t[1] = "'" /\ t[Len(t)] = "'"
        THEN Str(SubSeq(t, 2, Len(t) - 1))
        ELSE IF t = <<"[", "]">> THEN List
        ELSE IF t = <<"{", "}">> THEN Dict
        ELSE IF d <= Len(t) /\ IsName(SubSeq(t, 1, d - 1))
                /\ IsName(SubSeq(t, d + 1, Len(t)))
        THEN Attribute(SubSeq(t, 1, d - 1), SubSeq(t, d + 1, Len(t)))
        ELSE BadExpr

\* operand | operand(operand, ...)
ParseExpr(t) ==
    LET o == FirstIn(t, {"("})
        f == ParseOperand(SubSeq(t, 1, o - 1))
        inner == SubSeq(t, o + 1, Len(t) - 1)
        parts == IF inner = <<>> THEN <<>> ELSE SplitOn(inner, ", ")
        args == [i \in 1..Len(parts) |-> ParseOperand(parts[i])]
    IN  IF o > Len(t) THEN ParseOperand(t)
        ELSE IF t[Len(t)] # ")" \/ f.k \notin {"Name", "Attribute"}
                \/ \E i \in 1..Len(args) : args[i].k = "SyntaxError"
        THEN BadExpr
        ELSE Call(f.recv, f.id, args)

\* an event of the walk of the parsed tree
Ev(op, name, params, e) == [op |-> op, name |-> name, params |-> params, e |-> e]
BadStmt == Ev("SyntaxError", <<>>, <<>>, NoExpr)

\* one logical line, without its indentation
ParseStmt(c) ==
    LET last == c[Len(c)]
        mid == SubSeq(c, 2, Len(c) - 1)
        o == FirstIn(c, {"("})
        eq == FirstIn(c, {" = "})
        test == ParseExpr(mid)
        value == ParseExpr(SubSeq(c, eq + 1, Len(c)))
        params == IF o + 1 >= Len(c) THEN <<>>
                  ELSE SplitOn(SubSeq(c, o + 1, Len(c) - 1), ", ")
    IN  CASE c[1] = "def " ->
               IF o < Len(c) /\ last = "):" /\ IsName(SubSeq(c, 2, o - 1))
                  /\ \A k \in 1..Len(params) : IsName(params[k])
               THEN Ev("FunctionDef", SubSeq(c, 2, o - 1), params, NoExpr)
               ELSE BadStmt
          [] c[1] = "class " ->
               IF last = ":" /\ IsName(mid) THEN Ev("ClassDef", mid, <<>>, NoExpr)
               ELSE BadStmt
          [] c[1] \in {"if ", "elif ", "while "} ->
               IF last = ":" /\ test.k # "SyntaxError"
               THEN Ev(CASE c[1] = "if " -> "If" [] c[1] = "elif " -> "ElseIf"
                         [] OTHER -> "While", <<>>, <<>>, test)
               ELSE BadStmt
          [] c = <<"else:">> -> Ev("Else", <<>>, <<>>, NoExpr)
          [] c = <<"pass">> -> Ev("Pass", <<>>, <<>>, NoExpr)
          [] OTHER ->
               IF eq <= Len(c)
               THEN IF IsName(SubSeq(c, 1, eq - 1)) /\ value.k # "SyntaxError"
                    THEN Ev("Assign", SubSeq(c, 1, eq - 1), <<>>, value)
                    ELSE BadStmt
               ELSE IF ParseExpr(c).k # "SyntaxError"
                    THEN Ev("Expr", <<>>, <<>>, ParseExpr(c))
                    ELSE BadStmt

\* the indentation of a line, in units of the indent
Depth(line) ==
    FirstIn(line, {line[i] : i \in 1..Len(line)} \ {IndentWith}) - 1

\* the event that ends a block of kind k
CloseEvent(k) ==
    CASE k = "if" -> "EndIf"
      [] k = "func" -> "LeaveFunctionDef"
      [] k = "class" -> "LeaveClassDef"
      [] OTHER -> "LeaveBody"

\* the events that end the blocks `open` beyond depth d, innermost first
RECURSIVE Closings(_, _)
Closings(open, d) ==
    IF Len(open) <= d THEN <<>>
    ELSE <<Ev(CloseEvent(open[Len(open)]), <<>>, <<>>, NoExpr)>>
         \o Closings(SubSeq(open, 1, Len(open) - 1), d)

\* the block a compound statement opens
BlockOfStmt(op) ==
    CASE op = "FunctionDef" -> "func" [] op = "ClassDef" -> "class"
      [] op \in {"If", "ElseIf"} -> "if" [] op = "While" -> "while"
      [] op = "Else" -> "else" [] OTHER -> "welse"

\* the events of the lines from line i on; `open` are the kinds of the blocks
\* open around line i, `opened` tells that the line before opened a block.
\* An `else:` that follows a loop is the loop's else.  (The set constructor
\* binds i and open to values: the blocks are computed once per line.)
RECURSIVE Events(_, _, _, _)
Events(lines, at, around, opened) ==
    CHOOSE events \in {
        IF i > Len(lines) THEN (IF opened THEN <<BadStmt>> ELSE Closings(open, 0))
        ELSE IF Strip(lines[i]) = <<>> THEN Events(lines, i + 1, open, opened)
        ELSE LET d == Depth(lines[i])
                 st == ParseStmt(SubSeq(lines[i], d + 1, Len(lines[i])))
                 arm == st.op \in {"ElseIf", "Else"}
                 keep == IF arm THEN d + 1 ELSE d
                 s == IF arm /\ Len(open) > d /\ open[d + 1] = "while" /\ st.op = "Else"
                      THEN Ev("WhileElse", <<>>, <<>>, NoExpr) ELSE st
                 compound == s.op \in {"FunctionDef", "ClassDef", "If", "ElseIf",
                                       "While", "Else", "WhileElse"}
             IN  IF \/ st.op = "SyntaxError"
                    \/ keep > Len(open)
                    \/ opened /\ d # Len(open)
                    \/ arm /\ s.op # "WhileElse" /\ open[d + 1] # "if"
                 THEN <<BadStmt>>
                 ELSE Closings(open, keep) \o <<s>>
                      \o Events(lines, i + 1,
                                IF compound THEN Append(SubSeq(open, 1, d), BlockOfStmt(s.op))
                                ELSE SubSeq(open, 1, d),
                                compound)
        : i \in {at}, open \in {around} } : TRUE

\* ast.parse(text): the events of the walk of the tree
parse(text) == Events(SplitLines(text), 1, <<>>, FALSE)

\* the walk of the parsed tree by a generator g: the handlers in the order
\* of the events; frames are the handlers suspended in a loop over children.
\* (The set constructor binds g and frames to values: each handler is
\* computed once.)
RECURSIVE Replay(_, _, _, _)
Replay(ev, at, g0, frames0) ==
    CHOOSE after \in {
        IF i > Len(ev) \/ g.failed THEN g
        ELSE LET e == ev[i]
                 n == frames[Len(frames)].n
                 counted == IF frames = <<>> THEN frames
                            ELSE [frames EXCEPT ![Len(frames)].n = @ + 1]
                 popped == SubSeq(frames, 1, Len(frames) - 1)
             IN  CASE e.op = "Assign" ->
                        Replay(ev, i + 1, visit_Assign(g, e.name, e.e), counted)
                   [] e.op = "Expr" ->
                        Replay(ev, i + 1, visit_Expr(g, e.e), counted)
                   [] e.op = "Pass" ->
                        Replay(ev, i + 1, visit_Pass(g, "parsed"), counted)
                   [] e.op = "FunctionDef" ->
                        Replay(ev, i + 1, FunctionDef_open(g, e.name, e.params),
                               Append(counted, Frame("func", <<>>)))
                   [] e.op = "ClassDef" ->
                        Replay(ev, i + 1, ClassDef_open(g, e.name),
                               Append(counted, Frame("class", e.name)))
                   [] e.op = "If" ->
                        Replay(ev, i + 1, If_open(g, e.e), Append(counted, Frame("if", <<>>)))
                   [] e.op = "While" ->
                        Replay(ev, i + 1, While_open(g, e.e),
                               Append(counted, Frame("while", <<>>)))
                   [] e.op = "ElseIf" ->
                        Replay(ev, i + 1, If_elif(g, n, e.e), Append(popped, Frame("if", <<>>)))
                   [] e.op = "Else" ->
                        Replay(ev, i + 1, If_else(g, n), Append(popped, Frame("else", <<>>)))
                   [] e.op = "WhileElse" ->
                        Replay(ev, i + 1, While_else(g, n), Append(popped, Frame("welse", <<>>)))
                   [] e.op = "EndIf" -> Replay(ev, i + 1, If_end(g, n), popped)
                   [] e.op = "LeaveBody" -> Replay(ev, i + 1, body_close(g, n), popped)
                   [] e.op = "LeaveFunctionDef" ->
                        Replay(ev, i + 1, FunctionDef_close(g, n), popped)
                   [] e.op = "LeaveClassDef" ->
                        Replay(ev, i + 1,
                               ClassDef_close(g, frames[Len(frames)].name, n), popped)
        : i \in {at}, g \in {g0}, frames \in {frames0} } : TRUE

\* to_source(ast.parse(text)) of the mirror emitter, diagnostic mode off; an
\* exception of the parser or of the emitter leaves no text
to_source_parsed(text) ==
    CHOOSE emission \in {
        IF \E i \in 1..Len(ev) : ev[i].op = "SyntaxError" THEN <<"SyntaxError">>
        ELSE CHOOSE t \in {IF g.failed THEN <<"Exception">> ELSE g.result
                           : g \in {Replay(ev, 1, SourceGenerator("mirror", FALSE),
                                           <<>>)}} : TRUE
        : ev \in {parse(text)} } : TRUE

\* round2 = to_source(ast.parse(round1))
Reparse ==
    /\ pc = "done" /\ backend = "mirror"
    /\ pc' = "reparsed"
    /\ round2' = to_source_parsed(returned)
    /\ UNCHANGED <<backend, add_line_information, result, isNew, indentation,
                   new_lines, inClassDef, inMethodDef, hasCCA,
                   currentClassAttributes, currentClassAttributeTypes,
                   classAttributes, stdout, returned, stack, nodes, emitted,
                   wlog, lastNode, skipped, assignLog, reqs, stores, lastFlush>>

\* the round trip is made with the defaults of to_source: the mirror
\* emitter, diagnostic mode off
InitRT ==
    /\ backend = "mirror"
    /\ add_line_information = FALSE
    /\ InitRun

\* the trees are made of the constructs the mirror emitter has handlers for
NextRT ==
    \/ More /\ Assign(n_x, NumInt(<<"1">>))
    \/ More /\ \E e \in WalkCalls : ExprStmt(e)
    \/ More /\ PassStmt
    \/ More /\ Deeper /\ EnterFunctionDef(n_f, <<n_self>>)
    \/ More /\ Deeper /\ EnterClassDef(n_A)
    \/ More /\ Deeper /\ EnterIf(Name(n_x))
    \/ More /\ Deeper /\ EnterWhile(Name(n_x))
    \/ More /\ ElseIf(Name(n_x))
    \/ Else
    \/ EndIf
    \/ WhileElse
    \/ LeaveBody
    \/ LeaveFunctionDef
    \/ LeaveClassDef
    \/ Finish
    \/ Reparse

SpecRT == InitRT /\ [][NextRT]_vars

w_note == <<"n", "o", "t", "e">>

NextCom ==
    \/ More /\ Assign(n_comment, Str(w_note))
    \/ More /\ Deeper /\ EnterClassDef(n_A)
    \/ More /\ Deeper /\ EnterFunctionDef(n_f, <<n_self>>)
    \/ More /\ Deeper /\ EnterIf(Name(n_x))
    \/ EndIf
    \/ LeaveFunctionDef
    \/ LeaveClassDef
    \/ Finish

SpecCom == InitReg /\ [][NextCom]_vars

\* the last step walked a sentinel assignment
SentinelWalked ==
    lastNode.op = "Assign" /\ lastNode.name = n_comment /\ pc = "walk"

\* the last line of the text so far, as the post-pass leaves it
LastLinePosted ==
    LET lines == SplitLines(PostPass(result))
    IN  Strip(lines[Len(lines)])

\* C14: a sentinel assignment, wherever it stands, is written as an ordinary
\* assignment and comes out of the post-pass as one comment line: the
\* comment token and the text, without the trailing quote
C14_CommentKept ==
    SentinelWalked =>
        /\ emitted # <<>>
        /\ LastLinePosted = <<"//">> \o lastNode.args[1].id


(***************************************************************************)
(* If statements (Spec).                                                   *)
(***************************************************************************)
\* the last step ended an if statement whose chain has no else arm; the
\* body before has statements
IfWithoutElse == lastNode.op = "EndIf" /\ lastNode.args[1] >= 1

\* C15: for an if statement without else arm the heuristic emitter emits
\* exactly one trailing `else {` `}` block after the chain and the mirror
\* emitter emits no else
C15_TrailingElse ==
    IfWithoutElse =>
        /\ pc = "walk"
        /\ backend = "objc" =>
              /\ Count("else {", emitted) = 1
              /\ Len(emitted) >= 2
              /\ SubSeq(emitted, Len(emitted) - 1, Len(emitted)) = <<"else {", "}">>
        /\ backend = "mirror" => Count("else:", emitted) = 0


(***************************************************************************)
(* Selectors of declared methods, continued (SpecSel).                     *)
(***************************************************************************)
\* the non-empty parts of a name, every part after the first capitalised,
\* concatenated
Compound(name) ==
    LET parts == NonEmpty(split(name))
    IN  Join([i \in 1..Len(parts) |->
                 IF i = 1 THEN parts[i] ELSE capitalize_first(parts[i])])

\* the last step emitted the header of a receiver-first method whose
\* declared name is made of parts with one delimiter between them, is not
\* renamed and does not begin with `get`
PlainMethodDeclared ==
    /\ MethodDeclared
    /\ lastNode.args # <<>> /\ lastNode.args[1] = n_self
    /\ lastNode.name \notin {n_init, n_repr}
    /\ lastNode.name[1] # Delim /\ lastNode.name[Len(lastNode.name)] # Delim
    /\ \A i \in 1..(Len(lastNode.name) - 1) :
           ~(lastNode.name[i] = Delim /\ lastNode.name[i + 1] = Delim)
    /\ NonEmpty(split(lastNode.name))[1] # w_get

\* C16: the selector name emitted for such a method, whatever the number of
\* its parameters, is the compound of the parts of the declared name
C16_CompoundName ==
    PlainMethodDeclared =>
        /\ pc = "walk"
        /\ Len(StmtText) > 1 + Len(Compound(lastNode.name))
        /\ SubSeq(StmtText, 1, 1 + Len(Compound(lastNode.name)))
             = <<"- (id)">> \o Compound(lastNode.name)
        /\ StmtText[2 + Len(Compound(lastNode.name))] # Delim

\* the delimiters at the beginning of a name
RECURSIVE Leading(_)
Leading(name) ==
    IF name # <<>> /\ name[1] = Delim THEN 1 + Leading(Tail(name)) ELSE 0

\* the last step emitted the header of a receiver-first method with further
\* parameters, whose declared name has a non-empty part, is not renamed, is
\* not `init` and does not begin with `get`
KeywordMethodDeclared ==
    /\ MethodDeclared /\ pc = "walk"
    /\ Len(lastNode.args) > 1 /\ lastNode.args[1] = n_self
    /\ lastNode.name \notin {n_init, n_repr}
    /\ NonEmpty(split(lastNode.name)) \notin {<<>>, <<w_init>>}
    /\ NonEmpty(split(lastNode.name))[1] # w_get

\* the name with its k leading and m trailing delimiters around the compound
\* of its parts
Reattached(name) ==
    Rep(Delim, Leading(name)) \o Compound(name) \o Rep(Delim, Trailing(name))

\* C17: a name with k leading and m trailing delimiters is emitted with
\* exactly k delimiters before its first part and exactly m after its last
\* part: in the header of a method the parts stand between them, in a
\* method-style call the delimiters of the output are these k + m
C17_DelimitersReattached ==
    /\ KeywordMethodDeclared =>
          /\ Len(StmtText) > 1 + Len(Reattached(lastNode.name))
          /\ SubSeq(StmtText, 2, 1 + Len(Reattached(lastNode.name)))
               = Reattached(lastNode.name)
          /\ StmtText[2 + Len(Reattached(lastNode.name))]
               = UpperChar(lastNode.args[2][1])
    /\ MethodCallOfNParts =>
          Count(Delim, StmtText) = Leading(lastNode.name) + Trailing(lastNode.name)


(***************************************************************************)
(* Method-style calls, continued (SpecSel).                                *)
(***************************************************************************)
\* the last step emitted a method-style call whose name has another number
\* of non-empty parts than the call has arguments
MethodCallMismatch ==
    /\ lastNode.op = "Expr" /\ lastNode.recv # <<>> /\ pc = "walk"
    /\ Len(NonEmpty(split(lastNode.name))) # Len(lastNode.args)

\* the smaller of the number of non-empty parts and the number of arguments
Shorter ==
    IF Len(NonEmpty(split(lastNode.name))) <= Len(lastNode.args)
    THEN Len(NonEmpty(split(lastNode.name))) ELSE Len(lastNode.args)

\* C18: such a call is emitted with exactly min(parts, arguments) pairs
\* keyword:argument, the keywords the first non-empty parts and the arguments
\* the first arguments, in call order; nothing is reported
C18_TruncatedToShorter ==
    MethodCallMismatch =>
        /\ Count(":", StmtText) = Shorter
        /\ Shorter > 0 =>
              SelectSeq(StmtText, LAMBDA t : t # Delim)
                = <<"[">> \o lastNode.recv
                  \o Keywords(SubSeq(NonEmpty(split(lastNode.name)), 1, Shorter),
                              SubSeq(lastNode.args, 1, Shorter), 1)
                  \o <<"]">>
        /\ stdout = <<>>


(***************************************************************************)
(* SpecArm: chains of if statements, either emitter.                       *)
(***************************************************************************)
MaxArmStmts == 4
MaxArmDepth == 3

MoreArm == nodes < MaxArmStmts
DeeperArm == Len(stack) < MaxArmDepth

Tests == {Name(n_x), Name(n_y)}

NextArm ==
    \/ MoreArm /\ Assign(n_x, NumInt(<<"1">>))
    \/ MoreArm /\ DeeperArm /\ \E t \in Tests : EnterIf(t)
    \/ MoreArm /\ \E t \in Tests : ElseIf(t)
    \/ Else
    \/ EndIf
    \/ LeaveBody
    \/ Finish

SpecArm == Init /\ [][NextArm]_vars

\* the last step closed a body that has statements and went on to an else arm
\* that is not empty
ElseArmEntered == lastNode.op \in {"ElseIf", "Else"} /\ lastNode.args[1] >= 1

\* what the heuristic emitter writes to close the body before
ClosingBrace == IF backend = "objc" THEN <<"}">> ELSE <<>>

\* C19: an else arm that is exactly one if statement is emitted as one
\* elif / else-if introducer with the condition of that if statement and
\* without a literal else; an else arm of any other shape is emitted as a
\* literal else without a condition; the step writes nothing else, so every
\* condition of the chain is written once, where the walk reaches it
C19_CollapseOnlySoleIf ==
    ElseArmEntered =>
        /\ pc = "walk"
        /\ lastNode.op = "ElseIf" =>
              emitted = ClosingBrace
                        \o (IF backend = "objc"
                            THEN <<"else if (">> \o lastNode.name \o <<") {">>
                            ELSE <<"elif ">> \o lastNode.name \o <<":">>)
        /\ lastNode.op = "Else" =>
              emitted = ClosingBrace
                        \o (IF backend = "objc" THEN <<"else {">> ELSE <<"else:">>)

\* a chain if / elif / else: the literal else arm after an elif with the
\* second condition has been entered
C19_Witness ==
    /\ lastNode.op = "Else" /\ lastNode.args[1] >= 1 /\ pc = "walk"
    /\ Count("elif ", result) + Count("else if (", result) = 1
    /\ Count("else:", result) + Count("else {", result) = 1
    /\ \E i \in 1..Len(result) : result[i] \in {"elif ", "else if ("}
                                 /\ result[i + 1] = "y"


(***************************************************************************)
(* SpecNest: assignments in classes, methods and functions nested in       *)
(* methods (heuristic emitter).                                            *)
(***************************************************************************)
NextNest ==
    \/ MoreArm /\ Assign(n_x, NumInt(<<"1">>))
    \/ MoreArm /\ DeeperArm /\ EnterClassDef(n_A)
    \/ MoreArm /\ DeeperArm /\ EnterFunctionDef(n_f, <<n_self>>)
    \/ LeaveFunctionDef
    \/ LeaveClassDef
    \/ Finish

SpecNest == InitSel /\ [][NextNest]_vars

\* the last step visited an assignment that is a statement of the body of a
\* method: of a function definition that is a statement of a class
MethodAssignVisited ==
    /\ lastNode.op = "Assign"
    /\ Len(stack) >= 2
    /\ stack[Len(stack)].k = "func"
    /\ stack[Len(stack) - 1].k = "class"

\* C20: an assignment in a method body is emitted as a statement and is not
\* recorded as an attribute of the class, whatever came before it in the body
C20_MethodAssignEmitted ==
    MethodAssignVisited =>
        /\ pc = "walk"
        /\ StmtText = lastNode.name \o <<" = ">> \o lastNode.args[1].id
        /\ ~ClassLevelAssigned


(***************************************************************************)
(* SpecTwo: the heuristic emitter on two classes of different names that   *)
(* assign the same names at class level.                                   *)
(***************************************************************************)
NextTwo ==
    \/ /\ MoreArm /\ stack = <<>>
       /\ \E name \in {n_A, n_B} \ DOMAIN classAttributes : EnterClassDef(name)
    \/ /\ MoreArm /\ InClass
       /\ \E a \in RegAttrs, v \in {NumInt(<<"1">>), Str(n_x), Dict} : Assign(a, v)
    \/ LeaveClassDef
    \/ Finish

SpecTwo == InitReg /\ [][NextTwo]_vars

\* the class-level assignments to the name a in the class c whose value
\* matches a rule of the table, as indices of assignLog
ClassifiedIn(c, a) == {i \in ClassifiedAt(a) : assignLog[i].cls = c}

\* the type the assignments of the class c alone give the name a
OwnType(c, a) ==
    IF ClassifiedIn(c, a) = {} THEN NoType
    ELSE TableType(assignLog[Last(ClassifiedIn(c, a))].value)

\* C21: the interface block of a class lists each of its attributes with the
\* type its own class-level assignments give it, the generic object type
\* when none of them matches a rule, whatever the other classes assign
C21_TypeFromOwnClass ==
    pc = "done" =>
        \A c \in DOMAIN classAttributes : \A a \in classAttributes[c] :
            \E k \in 1..Len(BlockOf(c)) : BlockOf(c)[k] = AttrLine(OwnType(c, a), a)


(***************************************************************************)
(* Block braces of the heuristic emitter (Spec).                           *)
(***************************************************************************)
\* the block braces of the text t: those the introducers open, those body()
\* closes
Opened(t) == Count("{", t) + Count(") {", t) + Count("else {", t)
Closed(t) == Count("}", t)

\* C22: in the text of the heuristic emitter no prefix has more closing than
\* opening block braces, and the text to_source returns has as many of each
C22_BracesBalanced ==
    backend = "objc" =>
        /\ \A k \in 0..Len(result) :
               Closed(SubSeq(result, 1, k)) <= Opened(SubSeq(result, 1, k))
        /\ pc = "done" => Closed(returned) = Opened(returned)


(***************************************************************************)
(* The walk after the end of a class (Spec).                               *)
(***************************************************************************)
\* the last step visited an expression with an attribute access on the
\* receiver name, after a class of the tree had been walked to its end
AttributeAfterClass ==
    /\ lastNode.op = "Expr"
    /\ \E i \in 1..Len(lastNode.args) :
           lastNode.args[i].k = "Attribute" /\ lastNode.args[i].recv = n_self
    /\ DOMAIN classAttributes # {}

\* C23: in the heuristic emitter an attribute access on the receiver name
\* after the end of a class does not abort the run, and the end of every
\* class, nested or not, leaves the class its entry of the registry
C23_WalkGoesOnAfterClass ==
    backend = "objc" =>
        /\ AttributeAfterClass => pc = "walk"
        /\ lastNode.op = "EndClassDef" =>
              (pc = "walk" /\ lastNode.name \in DOMAIN classAttributes)

=============================================================================
